---- MODULE Spec2Model ----
(***************************************************************************)
(* Model of the gcplog targets of promtail:                                *)
(*   clients/pkg/promtail/targets/gcplog/pull_target.go  (pullTarget)      *)
(*   clients/pkg/promtail/targets/gcplog/push_target.go  (pushTarget)      *)
(*                                                                         *)
(* The pull target is a set of goroutines: the run goroutine (which is the *)
(* consumer loop), the receive goroutine, one delivery callback per        *)
(* message handle, and the caller of Stop.  The push target is one HTTP    *)
(* handler invocation per request plus the caller of Stop.  Each goroutine *)
(* has a program counter; an action is the code between two points where   *)
(* the goroutine can block or be interleaved with another one.             *)
(***************************************************************************)
EXTENDS Naturals, Sequences, FiniteSets

(* ---------------------------------------------------------------- bounds *)

\* Number of message handles the subscription client may deliver.
NumHandles == 2

\* Number of calls of Stop on one target.
MaxStops == 2

\* Number of HTTP requests sent to the push endpoint.
NumRequests == 2

Handles == 1..NumHandles

Requests == 1..NumRequests

\* A channel with room for every handle.
MsgsCapBuffered == NumHandles

\* Capacity of t.msgs: make(chan *pubsub.Message) is unbuffered.
MsgsCap == 0

\* The consumer holds no message.
NoHandle == 0

(* ----------------------------------------------------------------- state *)

VARIABLES
    \* pullTarget
    ctxDone,        \* t.ctx is cancelled
    cancelSets,     \* number of times the context went from live to cancelled
    heldAtCancel,   \* the handle the consumer held when the context was cancelled
    wg,             \* counter of t.wg
    runPc,          \* position of the goroutine running t.run (the consumer)
    cur,            \* the handle m held by the consumer, NoHandle if none
    recvPc,         \* position of the goroutine calling sub.Receive
    recvErr,        \* sub.Receive returned a non-nil error
    cb,             \* per handle: position of its delivery callback
    valid,          \* per handle: format(m, ...) returns no error
    msgsBuf,        \* handles buffered in t.msgs
    acks,           \* per handle: number of m.Ack() calls
    taken,          \* handles in the order the consumer received them
    sinkEntries,    \* entries the sink has received from `send`
    sinkStopCalls,  \* number of t.handler.Stop() calls
    gcplogErrors,   \* metrics.gcplogErrors
    gcplogEntries,  \* metrics.gcplogEntries
    stopPc,         \* position of the caller of pullTarget.Stop
    stopCalls,      \* calls of Stop begun
    stopReturns,    \* calls of Stop returned
    \* pushTarget
    reqPc,          \* per request: position of its h.push invocation
    reqKind,        \* per request: what is wrong with it, or "good"
    resp,           \* per request: status code written, 0 if none yet
    respCount,      \* per request: number of responses written
    pushSink,       \* entries the sink has received from `entries`
    gcpPushErrors,  \* metrics.gcpPushErrors
    gcpPushEntries, \* metrics.gcpPushEntries
    listener,       \* the HTTP server accepts new requests
    shutdownCalls,  \* number of h.server.Shutdown() calls
    pushSinkStopCalls, \* number of h.handler.Stop() calls
    pushStopPc,     \* position of the caller of pushTarget.Stop
    pushStopCalls,  \* calls of Stop begun
    pushStopReturns \* calls of Stop returned

pullVars == <<ctxDone, cancelSets, heldAtCancel, wg, runPc, cur, recvPc, recvErr, cb, valid,
              msgsBuf, acks, taken, sinkEntries, sinkStopCalls, gcplogErrors,
              gcplogEntries, stopPc, stopCalls, stopReturns>>

pushVars == <<reqPc, reqKind, resp, respCount, pushSink, gcpPushErrors,
              gcpPushEntries, listener, shutdownCalls, pushSinkStopCalls,
              pushStopPc, pushStopCalls, pushStopReturns>>

vars == <<pullVars, pushVars>>

(* ------------------------------------------------------------ pullTarget *)

\* State after newPullTarget has returned: the context is live, the channel
\* is empty, and the goroutine that will call t.run has been created but has
\* not run yet.
PullInit ==
    /\ ctxDone = FALSE
    /\ cancelSets = 0
    /\ heldAtCancel = NoHandle
    /\ wg = 0
    /\ runPc = "spawned"
    /\ cur = NoHandle
    /\ recvPc = "none"
    /\ recvErr = FALSE
    /\ cb = [h \in Handles |-> "idle"]
    /\ valid = [h \in Handles |-> TRUE]
    /\ msgsBuf = <<>>
    /\ acks = [h \in Handles |-> 0]
    /\ taken = <<>>
    /\ sinkEntries = <<>>
    /\ sinkStopCalls = 0
    /\ gcplogErrors = 0
    /\ gcplogEntries = 0
    /\ stopPc = "idle"
    /\ stopCalls = 0
    /\ stopReturns = 0

\* The mutant sets the cancellation anew on every call.
cancelEveryCall ==
    /\ ctxDone' = TRUE
    /\ cancelSets' = cancelSets + 1
    /\ heldAtCancel' = cur

\* t.cancel(): a context.CancelFunc; only the first call cancels.
cancel ==
    /\ ctxDone' = TRUE
    /\ cancelSets' = IF ctxDone THEN cancelSets ELSE cancelSets + 1
    /\ heldAtCancel' = IF ctxDone THEN heldAtCancel ELSE cur

\* format(m, ...): the entry of a handle, or an error.
format(m) ==
    IF valid[m] THEN [err |-> FALSE, entry |-> [handle |-> m]]
                ELSE [err |-> TRUE, entry |-> [handle |-> NoHandle]]

\* run, lines 83-102: wg.Add(1), then start the receive goroutine, then
\* enter the loop.
RunStart ==
    /\ runPc = "spawned"
    /\ wg' = wg + 1
    /\ recvPc' = "receiving"
    /\ runPc' = "select"
    /\ UNCHANGED pushVars
    /\ UNCHANGED <<ctxDone, cancelSets, heldAtCancel, cur, recvErr, cb, valid, msgsBuf, acks,
                   taken, sinkEntries, sinkStopCalls, gcplogErrors,
                   gcplogEntries, stopPc, stopCalls, stopReturns>>

\* The subscription client invokes the callback of sub.Receive for a handle,
\* at any time between the call of sub.Receive and its return; the callback
\* of lines 94-96 does not look at the context.  The callback executes
\* t.msgs <- m: it completes at once while the channel has room, and
\* otherwise blocks until the consumer receives.
Deliver(h, ok) ==
    /\ recvPc = "receiving"
    /\ cb[h] = "idle"
    /\ valid' = [valid EXCEPT ![h] = ok]
    /\ IF Len(msgsBuf) < MsgsCap
         THEN /\ msgsBuf' = Append(msgsBuf, h)
              /\ cb' = [cb EXCEPT ![h] = "returned"]
         ELSE /\ msgsBuf' = msgsBuf
              /\ cb' = [cb EXCEPT ![h] = "sending"]
    /\ UNCHANGED pushVars
    /\ UNCHANGED <<ctxDone, cancelSets, heldAtCancel, wg, runPc, cur, recvPc, recvErr, acks,
                   taken, sinkEntries, sinkStopCalls, gcplogErrors,
                   gcplogEntries, stopPc, stopCalls, stopReturns>>

\* select, case m := <-t.msgs.  Go's select chooses among the ready cases at
\* random, so this case can be taken while the context is cancelled too.
ConsumerTake(h) ==
    /\ runPc = "select"
    /\ IF msgsBuf # <<>>
         THEN /\ h = Head(msgsBuf)
              /\ msgsBuf' = Tail(msgsBuf)
              /\ cb' = cb
         ELSE /\ cb[h] = "sending"
              /\ msgsBuf' = msgsBuf
              /\ cb' = [cb EXCEPT ![h] = "returned"]
    /\ cur' = h
    /\ taken' = Append(taken, h)
    /\ runPc' = "format"
    /\ UNCHANGED pushVars
    /\ UNCHANGED <<ctxDone, cancelSets, heldAtCancel, wg, recvPc, recvErr, valid, acks,
                   sinkEntries, sinkStopCalls, gcplogErrors, gcplogEntries,
                   stopPc, stopCalls, stopReturns>>

\* The mutant returns without wg.Done().
ConsumerCancelledNoDone ==
    /\ runPc = "select"
    /\ ctxDone
    /\ runPc' = "done"
    /\ UNCHANGED pushVars
    /\ UNCHANGED <<ctxDone, cancelSets, heldAtCancel, wg, cur, recvPc, recvErr,
                   cb, valid, msgsBuf, acks, taken, sinkEntries, sinkStopCalls,
                   gcplogErrors, gcplogEntries, stopPc, stopCalls, stopReturns>>

\* select, case <-t.ctx.Done(): return, and the deferred wg.Done() runs.
ConsumerCancelled ==
    /\ runPc = "select"
    /\ ctxDone
    /\ runPc' = "done"
    /\ wg' = wg - 1
    /\ UNCHANGED pushVars
    /\ UNCHANGED <<ctxDone, cancelSets, heldAtCancel, cur, recvPc, recvErr, cb, valid,
                   msgsBuf, acks, taken, sinkEntries, sinkStopCalls,
                   gcplogErrors, gcplogEntries, stopPc, stopCalls, stopReturns>>

\* Lines 109-114: format fails; log, m.Ack(), break out of the select.
FormatFailReturns ==
    /\ runPc = "format"
    /\ format(cur).err
    /\ acks' = [acks EXCEPT ![cur] = @ + 1]
    /\ cur' = NoHandle
    /\ runPc' = "done"
    /\ wg' = wg - 1
    /\ UNCHANGED pushVars
    /\ UNCHANGED <<ctxDone, cancelSets, heldAtCancel, recvPc, recvErr, cb, valid,
                   msgsBuf, taken, sinkEntries, sinkStopCalls, gcplogErrors,
                   gcplogEntries, stopPc, stopCalls, stopReturns>>

\* The mutant returns to the select without m.Ack().
FormatFailNoAck ==
    /\ runPc = "format"
    /\ format(cur).err
    /\ cur' = NoHandle
    /\ runPc' = "select"
    /\ UNCHANGED pushVars
    /\ UNCHANGED <<ctxDone, cancelSets, heldAtCancel, wg, recvPc, recvErr, cb,
                   valid, msgsBuf, acks, taken, sinkEntries, sinkStopCalls,
                   gcplogErrors, gcplogEntries, stopPc, stopCalls, stopReturns>>

\* Lines 109-114: log, m.Ack(), break; the loop goes on.
FormatFail ==
    /\ runPc = "format"
    /\ format(cur).err
    /\ acks' = [acks EXCEPT ![cur] = @ + 1]
    /\ cur' = NoHandle
    /\ runPc' = "select"
    /\ UNCHANGED pushVars
    /\ UNCHANGED <<ctxDone, cancelSets, heldAtCancel, wg, recvPc, recvErr, cb, valid,
                   msgsBuf, taken, sinkEntries, sinkStopCalls, gcplogErrors,
                   gcplogEntries, stopPc, stopCalls, stopReturns>>

\* Line 109 without error, up to the send of line 115, where the consumer
\* blocks until the sink receives.  The mutant acknowledges before sending.
FormatOkAckFirst ==
    /\ runPc = "format"
    /\ ~format(cur).err
    /\ acks' = [acks EXCEPT ![cur] = @ + 1]
    /\ runPc' = "send"
    /\ UNCHANGED pushVars
    /\ UNCHANGED <<ctxDone, cancelSets, heldAtCancel, wg, cur, recvPc, recvErr, cb, valid,
                   msgsBuf, taken, sinkEntries, sinkStopCalls,
                   gcplogErrors, gcplogEntries, stopPc, stopCalls, stopReturns>>

\* The mutant gives the handle up when the context is cancelled: it returns
\* without sending and without m.Ack().
FormatOkDropsOnCancel ==
    /\ runPc = "format"
    /\ ~format(cur).err
    /\ IF ctxDone
         THEN /\ runPc' = "done"
              /\ wg' = wg - 1
              /\ cur' = NoHandle
         ELSE /\ runPc' = "send"
              /\ wg' = wg
              /\ cur' = cur
    /\ UNCHANGED pushVars
    /\ UNCHANGED <<ctxDone, cancelSets, heldAtCancel, recvPc, recvErr, cb, valid,
                   msgsBuf, acks, taken, sinkEntries, sinkStopCalls,
                   gcplogErrors, gcplogEntries, stopPc, stopCalls, stopReturns>>

\* Lines 109-115: no error; the consumer is at send <- entry.
FormatOk ==
    /\ runPc = "format"
    /\ ~format(cur).err
    /\ runPc' = "send"
    /\ UNCHANGED pushVars
    /\ UNCHANGED <<ctxDone, cancelSets, heldAtCancel, wg, cur, recvPc, recvErr, cb, valid,
                   msgsBuf, acks, taken, sinkEntries, sinkStopCalls,
                   gcplogErrors, gcplogEntries, stopPc, stopCalls, stopReturns>>

\* send <- entry completes: the sink has received the entry.
SinkAccept ==
    /\ runPc = "send"
    /\ sinkEntries' = Append(sinkEntries, format(cur).entry)
    /\ runPc' = "ack"
    /\ UNCHANGED pushVars
    /\ UNCHANGED <<ctxDone, cancelSets, heldAtCancel, wg, cur, recvPc, recvErr, cb, valid,
                   msgsBuf, acks, taken, sinkStopCalls, gcplogErrors,
                   gcplogEntries, stopPc, stopCalls, stopReturns>>

\* Lines 116-117: m.Ack(), count the entry, next iteration.
AckAfterSend ==
    /\ runPc = "ack"
    /\ acks' = [acks EXCEPT ![cur] = @ + 1]
    /\ gcplogEntries' = gcplogEntries + 1
    /\ cur' = NoHandle
    /\ runPc' = "select"
    /\ UNCHANGED pushVars
    /\ UNCHANGED <<ctxDone, cancelSets, heldAtCancel, wg, recvPc, recvErr, cb, valid,
                   msgsBuf, taken, sinkEntries, sinkStopCalls, gcplogErrors,
                   stopPc, stopCalls, stopReturns>>

\* sub.Receive returns: with nil once the context is cancelled, or with an
\* error at any time; in both cases only after every callback it started has
\* returned.
ReceiveReturn(e) ==
    /\ recvPc = "receiving"
    /\ \A h \in Handles : cb[h] # "sending"
    /\ e \/ ctxDone
    /\ recvErr' = e
    /\ recvPc' = "returned"
    /\ UNCHANGED pushVars
    /\ UNCHANGED <<ctxDone, cancelSets, heldAtCancel, wg, runPc, cur, cb, valid, msgsBuf,
                   acks, taken, sinkEntries, sinkStopCalls, gcplogErrors,
                   gcplogEntries, stopPc, stopCalls, stopReturns>>

\* Lines 97-101 and the deferred t.cancel() of line 92.  The mutant leaves
\* the goroutine without cancelling.
ReceiverExitNoCancel ==
    /\ recvPc = "returned"
    /\ gcplogErrors' = IF recvErr THEN gcplogErrors + 1 ELSE gcplogErrors
    /\ recvPc' = "done"
    /\ UNCHANGED pushVars
    /\ UNCHANGED <<ctxDone, cancelSets, heldAtCancel, wg, runPc, cur, recvErr, cb, valid,
                   msgsBuf, acks, taken, sinkEntries, sinkStopCalls,
                   gcplogEntries, stopPc, stopCalls, stopReturns>>

ReceiverExit ==
    /\ recvPc = "returned"
    /\ gcplogErrors' = IF recvErr THEN gcplogErrors + 1 ELSE gcplogErrors
    /\ cancel
    /\ recvPc' = "done"
    /\ UNCHANGED pushVars
    /\ UNCHANGED <<wg, runPc, cur, recvErr, cb, valid, msgsBuf, acks, taken,
                   sinkEntries, sinkStopCalls, gcplogEntries, stopPc,
                   stopCalls, stopReturns>>

\* Stop, line 147: t.cancel().
StopCancel ==
    /\ stopPc = "idle"
    /\ stopCalls < MaxStops
    /\ stopCalls' = stopCalls + 1
    /\ cancel
    /\ stopPc' = "wait"
    /\ UNCHANGED pushVars
    /\ UNCHANGED <<wg, runPc, cur, recvPc, recvErr, cb, valid, msgsBuf, acks,
                   taken, sinkEntries, sinkStopCalls, gcplogErrors,
                   gcplogEntries, stopReturns>>

\* Stop, line 148: t.wg.Wait() returns when the counter is zero.
StopWait ==
    /\ stopPc = "wait"
    /\ wg = 0
    /\ stopPc' = "handlerStop"
    /\ UNCHANGED pushVars
    /\ UNCHANGED <<ctxDone, cancelSets, heldAtCancel, wg, runPc, cur, recvPc, recvErr, cb,
                   valid, msgsBuf, acks, taken, sinkEntries, sinkStopCalls,
                   gcplogErrors, gcplogEntries, stopCalls, stopReturns>>

\* Stop, lines 149-150: t.handler.Stop(); return nil.
StopHandler ==
    /\ stopPc = "handlerStop"
    /\ sinkStopCalls' = sinkStopCalls + 1
    /\ stopReturns' = stopReturns + 1
    /\ stopPc' = "idle"
    /\ UNCHANGED pushVars
    /\ UNCHANGED <<ctxDone, cancelSets, heldAtCancel, wg, runPc, cur, recvPc, recvErr, cb,
                   valid, msgsBuf, acks, taken, sinkEntries, gcplogErrors,
                   gcplogEntries, stopCalls>>

\* The mutant reports ready only while the context is live.
ReadyWhileLive == ~ctxDone

\* pullTarget.Ready: return true.
PullReady == TRUE

ConsumerStep ==
    \/ \E h \in Handles : ConsumerTake(h)
    \/ ConsumerCancelled
    \/ FormatFail
    \/ FormatOk
    \/ AckAfterSend

PullNext ==
    \/ RunStart
    \/ \E h \in Handles, ok \in BOOLEAN : Deliver(h, ok)
    \/ ConsumerStep
    \/ SinkAccept
    \/ \E e \in BOOLEAN : ReceiveReturn(e)
    \/ ReceiverExit
    \/ StopCancel
    \/ StopWait
    \/ StopHandler

(* ------------------------------------------------------------ pushTarget *)

\* What a request can be: its body cannot be read, its body is not JSON, its
\* message does not translate, or it is a well-formed push message.
Kinds == {"unreadable", "badjson", "untranslatable", "good"}

\* State after newPushTarget has returned: the server is listening, no
\* request has arrived.
PushInit ==
    /\ reqPc = [r \in Requests |-> "none"]
    /\ reqKind = [r \in Requests |-> "good"]
    /\ resp = [r \in Requests |-> 0]
    /\ respCount = [r \in Requests |-> 0]
    /\ pushSink = <<>>
    /\ gcpPushErrors = 0
    /\ gcpPushEntries = 0
    /\ listener = TRUE
    /\ shutdownCalls = 0
    /\ pushSinkStopCalls = 0
    /\ pushStopPc = "idle"
    /\ pushStopCalls = 0
    /\ pushStopReturns = 0

\* io.ReadAll(r.Body) returns an error.
readAllFails(kind) == kind = "unreadable"

\* json.Unmarshal(bs, &pushMessage) returns an error.
unmarshalFails(kind) == kind = "badjson"

\* translate(pushMessage, ...): the entry of a request, or an error.
translate(r, kind) ==
    IF kind = "good" THEN [err |-> FALSE, entry |-> [request |-> r]]
                     ELSE [err |-> TRUE, entry |-> [request |-> 0]]

\* The request fails one of the three checks of lines 103-124.
rejected(r, kind) ==
    readAllFails(kind) \/ unmarshalFails(kind) \/ translate(r, kind).err

\* The server, while it listens, accepts a request and starts push for it;
\* push blocks in io.ReadAll(r.Body) of line 103 until the body has arrived.
PushAccept(r) ==
    /\ listener
    /\ reqPc[r] = "none"
    /\ reqPc' = [reqPc EXCEPT ![r] = "read"]
    /\ UNCHANGED pullVars
    /\ UNCHANGED <<reqKind, resp, respCount, pushSink, gcpPushErrors,
                   gcpPushEntries, listener, shutdownCalls, pushSinkStopCalls,
                   pushStopPc, pushStopCalls, pushStopReturns>>

\* push, lines 103-128: io.ReadAll returns, whether the server still listens
\* or not, and the request is handled up to its return with 400, or up to
\* the send of line 128, where the handler blocks until the sink receives.
\* The mutant writes the 204 before it sends the entry.
PushHandleRespondsFirst(r, kind) ==
    /\ reqPc[r] = "read"
    /\ reqKind' = [reqKind EXCEPT ![r] = kind]
    /\ IF rejected(r, kind)
         THEN /\ gcpPushErrors' = gcpPushErrors + 1
              /\ resp' = [resp EXCEPT ![r] = 400]
              /\ respCount' = [respCount EXCEPT ![r] = @ + 1]
              /\ reqPc' = [reqPc EXCEPT ![r] = "done"]
         ELSE /\ gcpPushErrors' = gcpPushErrors
              /\ resp' = [resp EXCEPT ![r] = 204]
              /\ respCount' = [respCount EXCEPT ![r] = @ + 1]
              /\ reqPc' = [reqPc EXCEPT ![r] = "send"]
    /\ UNCHANGED pullVars
    /\ UNCHANGED <<pushSink, gcpPushEntries, listener, shutdownCalls,
                   pushSinkStopCalls, pushStopPc, pushStopCalls,
                   pushStopReturns>>

\* The mutant sends the entry of a rejected request as well.
PushHandleSendsRejected(r, kind) ==
    /\ reqPc[r] = "read"
    /\ reqKind' = [reqKind EXCEPT ![r] = kind]
    /\ IF rejected(r, kind)
         THEN /\ gcpPushErrors' = gcpPushErrors + 1
              /\ resp' = [resp EXCEPT ![r] = 400]
              /\ respCount' = [respCount EXCEPT ![r] = @ + 1]
              /\ pushSink' = Append(pushSink, translate(r, kind).entry)
              /\ reqPc' = [reqPc EXCEPT ![r] = "done"]
         ELSE /\ gcpPushErrors' = gcpPushErrors
              /\ resp' = resp
              /\ respCount' = respCount
              /\ pushSink' = pushSink
              /\ reqPc' = [reqPc EXCEPT ![r] = "send"]
    /\ UNCHANGED pullVars
    /\ UNCHANGED <<gcpPushEntries, listener, shutdownCalls,
                   pushSinkStopCalls, pushStopPc, pushStopCalls,
                   pushStopReturns>>

PushHandle(r, kind) ==
    /\ reqPc[r] = "read"
    /\ reqKind' = [reqKind EXCEPT ![r] = kind]
    /\ IF rejected(r, kind)
         THEN /\ gcpPushErrors' = gcpPushErrors + 1
              /\ resp' = [resp EXCEPT ![r] = 400]
              /\ respCount' = [respCount EXCEPT ![r] = @ + 1]
              /\ reqPc' = [reqPc EXCEPT ![r] = "done"]
         ELSE /\ gcpPushErrors' = gcpPushErrors
              /\ resp' = resp
              /\ respCount' = respCount
              /\ reqPc' = [reqPc EXCEPT ![r] = "send"]
    /\ UNCHANGED pullVars
    /\ UNCHANGED <<pushSink, gcpPushEntries, listener, shutdownCalls,
                   pushSinkStopCalls, pushStopPc, pushStopCalls,
                   pushStopReturns>>

\* entries <- entry completes: the sink has received the entry.  The mutant
\* leaves the handler at the send, so that the entry is sent again.
PushSinkAcceptResends(r) ==
    /\ reqPc[r] = "send"
    /\ pushSink' = Append(pushSink, translate(r, reqKind[r]).entry)
    /\ \E pc \in {"send", "sent"} : reqPc' = [reqPc EXCEPT ![r] = pc]
    /\ UNCHANGED pullVars
    /\ UNCHANGED <<reqKind, resp, respCount, gcpPushErrors, gcpPushEntries,
                   listener, shutdownCalls, pushSinkStopCalls, pushStopPc,
                   pushStopCalls, pushStopReturns>>

PushSinkAccept(r) ==
    /\ reqPc[r] = "send"
    /\ pushSink' = Append(pushSink, translate(r, reqKind[r]).entry)
    /\ reqPc' = [reqPc EXCEPT ![r] = "sent"]
    /\ UNCHANGED pullVars
    /\ UNCHANGED <<reqKind, resp, respCount, gcpPushErrors, gcpPushEntries,
                   listener, shutdownCalls, pushSinkStopCalls, pushStopPc,
                   pushStopCalls, pushStopReturns>>

\* The mutant writes 204 without counting the entry.
PushRespondNoCount(r) ==
    /\ reqPc[r] = "sent"
    /\ resp' = [resp EXCEPT ![r] = 204]
    /\ respCount' = [respCount EXCEPT ![r] = @ + 1]
    /\ reqPc' = [reqPc EXCEPT ![r] = "done"]
    /\ UNCHANGED pullVars
    /\ UNCHANGED <<reqKind, pushSink, gcpPushErrors, gcpPushEntries, listener,
                   shutdownCalls, pushSinkStopCalls, pushStopPc, pushStopCalls,
                   pushStopReturns>>

\* push, lines 129-130: count the entry and write 204.
PushRespond(r) ==
    /\ reqPc[r] = "sent"
    /\ gcpPushEntries' = gcpPushEntries + 1
    /\ resp' = [resp EXCEPT ![r] = 204]
    /\ respCount' = [respCount EXCEPT ![r] = @ + 1]
    /\ reqPc' = [reqPc EXCEPT ![r] = "done"]
    /\ UNCHANGED pullVars
    /\ UNCHANGED <<reqKind, pushSink, gcpPushErrors, listener, shutdownCalls,
                   pushSinkStopCalls, pushStopPc, pushStopCalls,
                   pushStopReturns>>

\* A request is being handled.
inFlight(r) == reqPc[r] \in {"read", "send", "sent"}

\* The mutant goes on to stop the sink with the listener still open.
PushStopShutdownKeepsListening ==
    /\ pushStopPc = "idle"
    /\ pushStopCalls < MaxStops
    /\ pushStopCalls' = pushStopCalls + 1
    /\ shutdownCalls' = shutdownCalls + 1
    /\ pushStopPc' = "shutdown"
    /\ UNCHANGED pullVars
    /\ UNCHANGED <<reqPc, reqKind, resp, respCount, pushSink, gcpPushErrors,
                   gcpPushEntries, listener, pushSinkStopCalls,
                   pushStopReturns>>

\* Stop, line 155: h.server.Shutdown() closes the listener ...
PushStopShutdown ==
    /\ pushStopPc = "idle"
    /\ pushStopCalls < MaxStops
    /\ pushStopCalls' = pushStopCalls + 1
    /\ shutdownCalls' = shutdownCalls + 1
    /\ listener' = FALSE
    /\ pushStopPc' = "shutdown"
    /\ UNCHANGED pullVars
    /\ UNCHANGED <<reqPc, reqKind, resp, respCount, pushSink, gcpPushErrors,
                   gcpPushEntries, pushSinkStopCalls, pushStopReturns>>

\* ... and returns when no request is in flight, or when the server's
\* graceful shutdown timeout has passed.
PushStopShutdownReturns(timeout) ==
    /\ pushStopPc = "shutdown"
    /\ timeout \/ \A r \in Requests : ~inFlight(r)
    /\ pushStopPc' = "handlerStop"
    /\ UNCHANGED pullVars
    /\ UNCHANGED <<reqPc, reqKind, resp, respCount, pushSink, gcpPushErrors,
                   gcpPushEntries, listener, shutdownCalls, pushSinkStopCalls,
                   pushStopCalls, pushStopReturns>>

\* Stop, lines 156-157: h.handler.Stop(); return nil.
PushStopHandler ==
    /\ pushStopPc = "handlerStop"
    /\ pushSinkStopCalls' = pushSinkStopCalls + 1
    /\ pushStopReturns' = pushStopReturns + 1
    /\ pushStopPc' = "idle"
    /\ UNCHANGED pullVars
    /\ UNCHANGED <<reqPc, reqKind, resp, respCount, pushSink, gcpPushErrors,
                   gcpPushEntries, listener, shutdownCalls, pushStopCalls>>

\* pushTarget.Ready: return true.
PushReady == TRUE

PushNext ==
    \/ \E r \in Requests : PushAccept(r)
    \/ \E r \in Requests, kind \in Kinds : PushHandle(r, kind)
    \/ \E r \in Requests : PushSinkAccept(r)
    \/ \E r \in Requests : PushRespond(r)
    \/ PushStopShutdown
    \/ \E timeout \in BOOLEAN : PushStopShutdownReturns(timeout)
    \/ PushStopHandler

(* -------------------------------------------------------- specifications *)

Init == PullInit /\ PushInit

\* The pull target alone.
PullSpec == Init /\ [][PullNext]_vars

\* The push target alone.
PushSpec == Init /\ [][PushNext]_vars

\* A pull target and a push target side by side.
TargetsSpec == Init /\ [][PullNext \/ PushNext]_vars

\* The pull target under the Go scheduler, which runs every runnable
\* goroutine eventually, and with a sink that receives every entry sent to
\* it.  Stop is called or not, and the subscription fails or not.
FairPullSpec ==
    /\ PullSpec
    /\ WF_vars(RunStart)
    /\ WF_vars(ConsumerStep)
    /\ WF_vars(SinkAccept)
    /\ WF_vars(ReceiverExit)
    /\ WF_vars(StopWait)
    /\ WF_vars(StopHandler)

\* FairPullSpec with a subscription client that returns from sub.Receive once
\* the context is cancelled and every callback it started has returned.
FairReceiveSpec ==
    /\ FairPullSpec
    /\ WF_vars(ReceiveReturn(FALSE))

(* ---------------------------------------------------------------- claims *)

\* The elements of a sequence.
Range(s) == {s[i] : i \in 1..Len(s)}

\* The number of places of a sequence that hold x.
Count(s, x) == Cardinality({i \in 1..Len(s) : s[i] = x})

\* The subscription client has passed the handle to the callback.
delivered(h) == cb[h] # "idle"

\* C1: in pull mode every handle passed to the delivery callback is
\* acknowledged exactly once: never twice, and once Stop has returned and the
\* consumer has exited no delivered handle is left unacknowledged, the
\* handles whose callback waits at the handoff included.
C1_ExactlyOneAck ==
    /\ \A h \in Handles : acks[h] <= 1
    /\ (stopReturns > 0 /\ runPc = "done") =>
           \A h \in Handles : delivered(h) => acks[h] = 1

\* C2: in pull mode a handle whose message translates is acknowledged only
\* after the sink has received its entry: while the consumer is blocked at
\* the send the handle it holds is unacknowledged, and every acknowledged
\* handle that translates has its entry in the sink.
C2_AckAfterSubmission ==
    /\ runPc = "send" => acks[cur] = 0
    /\ \A h \in Handles :
           (acks[h] > 0 /\ ~format(h).err) => format(h).entry \in Range(sinkEntries)

\* A handle that translates has been submitted and then acknowledged.
C2_Witness ==
    \E h \in Handles :
        /\ ~format(h).err
        /\ acks[h] = 1
        /\ format(h).entry \in Range(sinkEntries)

\* C3: in pull mode Stop neither stops the sink nor returns before the
\* consumer task has exited, in every interleaving with the start of run.
C3_StopJoinsConsumer ==
    (stopPc = "handlerStop" \/ stopReturns > 0) => runPc = "done"

\* What can be observed of a pull target, its context and its sink: whether
\* the context is cancelled, how often it was set, whether the sink is
\* stopped (the sink's stop is idempotent).
pullObservable == <<ctxDone, cancelSets, sinkStopCalls > 0>>

\* What can be observed of a push target, its server and its sink: whether
\* the listener is open, whether the sink is stopped.
pushObservable == <<listener, pushSinkStopCalls > 0>>

\* A step of a call of pullTarget.Stop that follows a completed call.
LaterPullStopStep ==
    /\ stopReturns >= 1
    /\ <<stopPc, stopCalls, stopReturns>>' # <<stopPc, stopCalls, stopReturns>>

\* A step of a call of pushTarget.Stop that follows a completed call.
LaterPushStopStep ==
    /\ pushStopReturns >= 1
    /\ <<pushStopPc, pushStopCalls, pushStopReturns>>' #
           <<pushStopPc, pushStopCalls, pushStopReturns>>

C5_Backpressure ==
    /\ [](runPc = "send" =>
            /\ msgsBuf = <<>>
            /\ \A h \in Handles :
                   (delivered(h) /\ h # cur /\ acks[h] = 0) => cb[h] = "sending")
    /\ [][runPc = "send" =>
            \A h \in Handles : cb[h] = "sending" => cb'[h] = "sending"]_vars

\* The consumer is blocked at the send while another handle waits at the
\* handoff.
C5_Witness ==
    /\ runPc = "send"
    /\ \E h \in Handles : h # cur /\ cb[h] = "sending"

\* C6: in push mode a request whose body cannot be read, whose JSON cannot
\* be parsed or whose translation fails is answered 400, its handling leaves
\* the sink's queue as it was, and the sink never holds an entry of it.
C6_RejectedNotSubmitted ==
    /\ [](\A r \in Requests :
            (reqPc[r] \notin {"none", "read"} /\ rejected(r, reqKind[r])) =>
                /\ resp[r] = 400
                /\ reqPc[r] = "done"
                /\ \A i \in 1..Len(pushSink) : pushSink[i].request # r)
    /\ [][\A r \in Requests :
            (reqPc[r] = "read" /\ reqPc'[r] # "read" /\ rejected(r, reqKind'[r])) =>
                pushSink' = pushSink]_vars

\* A request that was rejected after another request's entry reached the
\* sink.
C6_Witness ==
    \E r \in Requests :
        /\ reqPc[r] = "done"
        /\ rejected(r, reqKind[r])
        /\ resp[r] = 400
        /\ pushSink # <<>>

\* C7: in push mode a request has no response while its entry waits to be
\* accepted by the sink, and a request answered 204 has its entry in the
\* sink.
C7_ResponseAfterSubmission ==
    \A r \in Requests :
        /\ reqPc[r] = "send" => (resp[r] = 0 /\ respCount[r] = 0)
        /\ resp[r] = 204 => translate(r, reqKind[r]).entry \in Range(pushSink)

\* A request has been answered 204 while another one is still blocked at
\* the send.
C7_Witness ==
    \E r1, r2 \in Requests :
        /\ resp[r1] = 204
        /\ reqPc[r2] = "send"

\* The requests that have reached the send of their entry.
reachedSubmission ==
    {r \in Requests : reqPc[r] \notin {"none", "read"} /\ ~rejected(r, reqKind[r])}

\* C8: in push mode, under concurrent requests, a request has at most one
\* response and exactly one once it has completed, at most one entry of a
\* request reaches the sink, the sink has received no more entries than
\* requests have reached submission, and once every request has completed
\* the sink has received as many entries as there are 204 responses.
C8_OneResponseOneSubmission ==
    /\ \A r \in Requests :
           /\ respCount[r] <= 1
           /\ reqPc[r] = "done" => respCount[r] = 1
           /\ Count(pushSink, [request |-> r]) <= 1
    /\ Len(pushSink) <= Cardinality(reachedSubmission)
    /\ (\A r \in Requests : reqPc[r] = "done") =>
           Len(pushSink) = Cardinality({r \in Requests : resp[r] = 204})

\* Every request has completed, and several of them were answered 204.
C8_Witness ==
    /\ \A r \in Requests : reqPc[r] = "done"
    /\ Cardinality({r \in Requests : resp[r] = 204}) >= 2
    /\ Len(pushSink) >= 2

\* C9: in pull mode, whenever sub.Receive returns, with or without an
\* error, the context is cancelled and the consumer task eventually exits
\* (the sink receiving the entry of a submission in progress).
C9_ReceiveReturnCancels ==
    /\ (recvPc = "returned") ~> ctxDone
    /\ (recvPc = "returned") ~> (runPc = "done")

\* sub.Receive failed while Stop was never called, the context is cancelled
\* and the consumer has exited.
C9_Witness ==
    /\ recvPc = "done"
    /\ recvErr
    /\ stopCalls = 0
    /\ ctxDone
    /\ runPc = "done"

\* C10: in pull mode a message whose translation fails is acknowledged with
\* no submission to the sink, and the consumer returns to its select and
\* goes on with later handles.
C10_FailureNotFatal ==
    /\ [](\A h \in Handles :
            format(h).err => \A i \in 1..Len(sinkEntries) : sinkEntries[i].handle # h)
    /\ [][(runPc = "format" /\ format(cur).err /\ runPc' # "format") =>
            /\ acks'[cur] = acks[cur] + 1
            /\ sinkEntries' = sinkEntries
            /\ runPc' = "select"]_vars

\* After a handle whose translation failed was acknowledged, the consumer
\* received a later handle and submitted its entry.
C10_Witness ==
    \E i, j \in 1..Len(taken) :
        /\ i < j
        /\ format(taken[i]).err
        /\ acks[taken[i]] = 1
        /\ format(taken[j]).entry \in Range(sinkEntries)
        /\ acks[taken[j]] = 1

\* A step of the pull target other than a new call of Stop.
TargetStep ==
    \/ RunStart
    \/ \E h \in Handles, ok \in BOOLEAN : Deliver(h, ok)
    \/ ConsumerStep
    \/ SinkAccept
    \/ \E e \in BOOLEAN : ReceiveReturn(e)
    \/ ReceiverExit
    \/ StopWait
    \/ StopHandler

\* Both loops have exited and the sink has been stopped.
Stopped ==
    /\ runPc = "done"
    /\ recvPc = "done"
    /\ sinkStopCalls > 0

\* C11: Ready reports true in every lifecycle state of both targets: before
\* any message, while cancelling, after sub.Receive has failed and after
\* Stop has returned.
C11_ReadyAlways == PullReady /\ PushReady

\* Ready reports true after sub.Receive has failed and Stop has returned.
C11_Witness ==
    /\ PullReady
    /\ recvPc = "done"
    /\ recvErr
    /\ ctxDone
    /\ stopReturns > 0

\* C12: in pull mode, once the context is cancelled the receive task
\* eventually returns, in every run, the runs in which callbacks wait at the
\* handoff when the consumer exits included.
C12_ReceiveReturnsAfterCancel ==
    ctxDone ~> (recvPc \in {"returned", "done"})

\* C12, as a property of the states in which the target has come to rest:
\* with the context cancelled and the receive goroutine started, the target
\* can take no further step only if sub.Receive has returned.
C12_AtRestReceiveReturned ==
    (ctxDone /\ recvPc # "none" /\ ~ENABLED TargetStep) =>
        recvPc \in {"returned", "done"}

\* C13: in pull mode each message whose translation fails increments the
\* error counter once, by the time its handle is acknowledged.
C13_FailureCounted ==
    [][(runPc = "format" /\ format(cur).err /\ runPc' # "format") =>
          gcplogErrors' = gcplogErrors + 1]_vars

\* C14: in pull mode, when sub.Receive has failed and Stop is never called,
\* the target does not come to rest before it has reached Stopped.
C14_StoppedWithoutStop ==
    (recvErr /\ stopCalls = 0 /\ ~ENABLED TargetStep) => Stopped

\* C15: in pull mode, once the context is cancelled the consumer receives no
\* further handle from t.msgs.
C15_NoTakeAfterCancel ==
    [][ctxDone => taken' = taken]_vars

\* The handles the consumer has received and not acknowledged.
inHand == {h \in Range(taken) : acks[h] = 0}

\* C16: in pull mode the consumer handles one handle at a time: at most one
\* handle is between handoff and acknowledgment, none is while the consumer
\* is at its select, and the consumer receives a handle only when every
\* handle it received before is acknowledged.
C16_OneAtATime ==
    /\ [](/\ Cardinality(inHand) <= 1
          /\ msgsBuf = <<>>
          /\ runPc \in {"spawned", "select", "done"} => inHand = {})
    /\ [][taken' # taken => inHand = {}]_vars

\* The consumer holds a second handle after it has acknowledged a first one.
C16_Witness ==
    /\ Len(taken) >= 2
    /\ acks[taken[1]] = 1
    /\ inHand = {taken[2]}

\* C17: in push mode every request increments exactly one counter exactly
\* once: the error counter if and only if it is answered 400, the success
\* counter if and only if it is answered 204, and the success counter only
\* after its entry has been submitted.
C17_OneCounterPerRequest ==
    /\ gcpPushErrors = Cardinality({r \in Requests : resp[r] = 400})
    /\ gcpPushEntries = Cardinality({r \in Requests : resp[r] = 204})
    /\ gcpPushErrors + gcpPushEntries =
           Cardinality({r \in Requests : reqPc[r] = "done"})
    /\ gcpPushEntries <= Len(pushSink)

\* One request was answered 400 and another 204.
C17_Witness ==
    /\ \E r \in Requests : resp[r] = 400
    /\ \E r \in Requests : resp[r] = 204
    /\ gcpPushErrors = 1
    /\ gcpPushEntries = 1

\* C18: in push mode Stop shuts the listener down before it stops the sink:
\* the sink's stop is never invoked while the listener accepts requests, and
\* no request is accepted once Stop has shut the listener down.
C18_ShutdownBeforeSinkStop ==
    /\ []((pushStopPc = "handlerStop" \/ pushSinkStopCalls > 0) => ~listener)
    /\ [][~listener =>
            \A r \in Requests : reqPc[r] = "none" => reqPc'[r] = "none"]_vars

\* Stop has stopped the sink of a target that has submitted an entry, and a
\* request that did not arrive before is refused.
C18_Witness ==
    /\ pushSinkStopCalls > 0
    /\ ~listener
    /\ pushSink # <<>>
    /\ \E r \in Requests : reqPc[r] = "none"

\* C19: in pull mode, in every interleaving of run, the callbacks and Stop,
\* no entry is submitted to the sink after Stop has invoked the sink's stop:
\* the consumer holds no handle then, and the sink receives nothing more.
C19_NoSubmitAfterSinkStop ==
    /\ [](sinkStopCalls > 0 => runPc \in {"spawned", "select", "done"})
    /\ [][sinkStopCalls > 0 => sinkEntries' = sinkEntries]_vars

\* C20: in pull mode a handle the consumer has received is eventually
\* acknowledged, also when the context is cancelled while the handle is
\* translated or submitted (the sink receiving the entry), and the consumer
\* lets go of a handle only by acknowledging it.
C20_HeldHandleAcked ==
    /\ \A h \in Handles : (cur = h) ~> (acks[h] > 0)
    /\ [][(cur # NoHandle /\ cur' # cur) => acks'[cur] = acks[cur] + 1]_vars

\* The context was cancelled while the consumer held a handle, and that
\* handle has been acknowledged.
C20_Witness ==
    /\ heldAtCancel # NoHandle
    /\ acks[heldAtCancel] = 1

\* A step of the pull target that is neither a new call of Stop nor the sink
\* receiving an entry.
NonSinkStep ==
    \/ RunStart
    \/ \E h \in Handles, ok \in BOOLEAN : Deliver(h, ok)
    \/ ConsumerStep
    \/ \E e \in BOOLEAN : ReceiveReturn(e)
    \/ ReceiverExit
    \/ StopWait
    \/ StopHandler

\* C21: in pull mode, under fair scheduling and with a sink that receives
\* every entry sent to it, every call of Stop eventually returns; and
\* whenever a call of Stop is in progress and nothing but the sink can take
\* a step, the consumer is blocked at its send to the sink.
C21_StopReturns ==
    /\ \A n \in 1..MaxStops : (stopCalls = n) ~> (stopReturns = n)
    /\ []((stopPc # "idle" /\ ~ENABLED NonSinkStep) => runPc = "send")

\* Stop was called while the consumer held a handle, the sink has received
\* that handle's entry, and every call of Stop has returned.
C21_Witness ==
    /\ stopCalls >= 1
    /\ stopReturns = stopCalls
    /\ stopPc = "idle"
    /\ heldAtCancel # NoHandle
    /\ format(heldAtCancel).entry \in Range(sinkEntries)
    /\ runPc = "done"

====
